---- MODULE Spec2Model ----
(***************************************************************************)
(* heap1: a lock-free bump allocator.  A Heap owns one Storage (Inline,    *)
(* Pointer or BoxedSlice) and an atomic counter `remained` of unused       *)
(* bytes.  alloc carves an aligned region from the tail of the region with *)
(* a compare_exchange_weak retry loop; dealloc does nothing.               *)
(***************************************************************************)
EXTENDS Integers, Naturals, Sequences, FiniteSets, TLC

\* ------------------------------------------------------------------ bounds
\* Width of usize in the model, in bits.
WordBits == 7
\* Size of the managed region (Inline<N>, new_boxed(N), init_with_ptr(_, N)).
HeapSize == 2
\* Largest size a Layout asks for.
MaxSize == 3
\* Layout alignments are 2^0 .. 2^MaxAlignLog.
MaxAlignLog == 2
\* Number of addresses a storage may be placed at.
MaxBase == 1
\* Number of alloc / dealloc calls issued over the life of the Heap.
MaxCalls == 2

\* Number of concurrent callers.
NumThreads == 2

Threads == 1..NumThreads

\* ------------------------------------------------------- usize arithmetic
RECURSIVE Pow2(_)
Pow2(n) == IF n = 0 THEN 1 ELSE 2 * Pow2(n - 1)

WordMod == Pow2(WordBits)

\* usize subtraction as the release build computes it (wrapping).
WrapSub(a, b) == (a - b + WordMod) % WordMod

\* !x on a usize.
BitNot(x) == WordMod - 1 - x

\* a & b on usizes, bit by bit over n bits.
RECURSIVE BitAndN(_, _, _)
BitAndN(a, b, n) ==
    IF n = 0 THEN 0
    ELSE (IF a % 2 = 1 /\ b % 2 = 1 THEN 1 ELSE 0)
         + 2 * BitAndN(a \div 2, b \div 2, n - 1)

BitAnd(a, b) == BitAndN(a, b, WordBits)

\* ------------------------------------------------------------- constants
\* ptr::null_mut()
Null == 0
\* NonNull::<u8>::dangling(): the alignment of u8 used as an address.
Dangling == 1
\* Alignment of AtomicUsize, hence of Heap<Inline<N>> and of its fields' offsets.
UsizeAlign == 4

\* Layout: a size and a power-of-two alignment.
Aligns == {Pow2(k) : k \in 0..MaxAlignLog}
Layouts == [size : 0..MaxSize, align : Aligns]

\* Addresses the buffer of an Inline storage can have: the buffer is a field
\* of the Heap, whose alignment is that of its AtomicUsize.
InlineBases == {UsizeAlign * k : k \in 1..MaxBase}
\* Addresses a caller passes to init_with_ptr: non-null, and told apart from
\* the sentinel of empty().
PointerBases == (Dangling + 1)..(Dangling + MaxBase)
\* Addresses of a Box<[MaybeUninit<u8>]>: a byte slice, alignment 1.
BoxedBases == 1..MaxBase

VARIABLES
    storage,        \* Heap.storage: [kind, ptr]
    remained,       \* Heap.remained (AtomicUsize)
    total_size,     \* size given at construction / by init_with_ptr
    initialized,    \* init_with_ptr has been called
    pc,             \* per caller: "idle", "check" (line 83), "cas" (line 88)
    layout,         \* per caller: the Layout of the call in progress
    old_remained,   \* per caller: local old_remained
    new_remained,   \* per caller: local new_remained (line 87)
    ncalls,         \* calls issued so far
    allocs,         \* successful allocations, in order of their CAS
    failed,         \* smallest size for which an alloc has returned null
    seenFail,       \* per caller: `failed` when its call started
    contended,      \* per caller: a CAS of the call was lost to another caller
    obs             \* what the observer of a run records:
                    \*   trace: the calls in the order they take effect
                    \*   changes: per caller, changes of remained by others during its call
                    \*   cas_failures: per caller, failed CAS attempts of the call
                    \*   lin: per caller, its call is in the trace as refused
                    \*   result: what the last allocate to return has returned
                    \* The specifications that do not observe leave it as it starts.

vars == <<storage, remained, total_size, initialized, pc, layout,
          old_remained, new_remained, ncalls, allocs, failed, seenFail,
          contended, obs>>

\* The Heap itself.
heap == <<storage, remained, total_size, initialized>>
\* The locals of the callers.
locals == <<pc, layout, old_remained, new_remained, seenFail, contended>>

\* No alloc has returned null yet.
NoFail == WordMod
\* The locals of a caller that is not inside alloc.
NoLayout == [size |-> 0, align |-> 1]

\* ---------------------------------------------------------- construction
\* Heap::new_with_storage(storage, size)
new_with_storage(s, size) ==
    /\ storage = s
    /\ remained = size
    /\ total_size = size

\* Heap::<Inline<N>>::new()
new == \E b \in InlineBases :
    new_with_storage([kind |-> "Inline", ptr |-> b], HeapSize)

\* Heap::new_boxed(size)
new_boxed == \E b \in BoxedBases :
    new_with_storage([kind |-> "BoxedSlice", ptr |-> b], HeapSize)

\* Faulty variant: the empty Heap claims bytes it does not have
EmptyWithSize == new_with_storage([kind |-> "Pointer", ptr |-> Dangling], HeapSize)

\* Heap::<Pointer>::empty()
empty == new_with_storage([kind |-> "Pointer", ptr |-> Dangling], 0)

\* The callers before any call.
Callers0 ==
    /\ initialized = FALSE
    /\ pc = [t \in Threads |-> "idle"]
    /\ layout = [t \in Threads |-> NoLayout]
    /\ old_remained = [t \in Threads |-> 0]
    /\ new_remained = [t \in Threads |-> 0]
    /\ ncalls = 0
    /\ allocs = <<>>
    /\ failed = NoFail
    /\ seenFail = [t \in Threads |-> NoFail]
    /\ contended = [t \in Threads |-> FALSE]
    /\ obs = [trace |-> <<>>,
              changes |-> [t \in Threads |-> 0],
              cas_failures |-> [t \in Threads |-> 0],
              lin |-> [t \in Threads |-> FALSE],
              result |-> [tag |-> "none", addr |-> 0, len |-> 0]]

Init == (new \/ new_boxed \/ empty) /\ Callers0

\* Storage::ptr(): the base address.
ptr == storage.ptr

\* --------------------------------------------------------- init_with_ptr
\* Faulty variant: the caller initializes again, at any time
InitAnytime == TRUE

\* The caller's obligation (# Safety): once, and before any allocation.
InitOnce == ~initialized /\ ncalls = 0

\* Faulty variant: the size stored is one byte short
InitStoresLess(address, size) ==
    /\ storage.kind = "Pointer"
    /\ storage' = [storage EXCEPT !.ptr = address]
    /\ remained' = size - 1
    /\ total_size' = size
    /\ initialized' = TRUE
    /\ UNCHANGED <<locals, ncalls, allocs, failed>>

\* Faulty variant: a second initialization, or one after a grant, is refused
InitGuarded(address, size) ==
    /\ storage.kind = "Pointer"
    /\ ~initialized
    /\ allocs = <<>>
    /\ storage' = [storage EXCEPT !.ptr = address]
    /\ remained' = size
    /\ total_size' = size
    /\ initialized' = TRUE
    /\ UNCHANGED <<locals, ncalls, allocs, failed>>

\* Heap::<Pointer>::init_with_ptr(address, size).  The function itself
\* checks nothing.
init_with_ptr(address, size) ==
    /\ storage.kind = "Pointer"
    /\ storage' = [storage EXCEPT !.ptr = address]
    /\ remained' = size
    /\ total_size' = size
    /\ initialized' = TRUE
    /\ UNCHANGED <<locals, ncalls, allocs, failed>>

\* ------------------------------------------------------------------ alloc
\* Faulty variant: the mask without the - 1
MaskOffByOne(l) == BitNot(l.align)

\* line 79
align_mask_to_round_down(l) == BitNot(WrapSub(l.align, 1))

\* Faulty variant: the test off by one
ExhaustedOffByOne(size, old) == size > old + 1

\* Faulty variant: a request for all the bytes left is refused
ExhaustedOrEqual(size, old) == size >= old

\* line 83: the exhaustion test
Exhausted(size, old) == size > old

\* Faulty variant: rounding up to the alignment instead of down
NewRemainedRoundUp(old, l) ==
    BitAnd(WrapSub(old, l.size) + l.align - 1, BitNot(WrapSub(l.align, 1)))

\* line 87
NewRemained(old, l) == BitAnd(WrapSub(old, l.size), align_mask_to_round_down(l))

\* Faulty variant: a plain store in place of the compare-and-swap
CasBlind(t) == TRUE

\* line 88: the comparison of compare_exchange_weak
CasMatches(t) == remained = old_remained[t]

\* line 96: the address returned
Address(r) == ptr + r

\* alloc returns: its locals die.
Return(t) ==
    /\ pc' = [pc EXCEPT ![t] = "idle"]
    /\ layout' = [layout EXCEPT ![t] = NoLayout]
    /\ old_remained' = [old_remained EXCEPT ![t] = 0]
    /\ new_remained' = [new_remained EXCEPT ![t] = 0]
    /\ seenFail' = [seenFail EXCEPT ![t] = NoFail]
    /\ contended' = [contended EXCEPT ![t] = FALSE]

\* lines 76-81: alloc is entered and remained is loaded.
AllocEnter(t, l) ==
    /\ pc[t] = "idle"
    /\ ncalls' = ncalls + 1
    /\ layout' = [layout EXCEPT ![t] = l]
    /\ old_remained' = [old_remained EXCEPT ![t] = remained]
    /\ seenFail' = [seenFail EXCEPT ![t] = failed]
    /\ pc' = [pc EXCEPT ![t] = "check"]
    /\ UNCHANGED <<heap, new_remained, allocs, failed, contended>>

\* A call of alloc, while the callers still have calls to issue.
AllocLoad(t, l) == ncalls < MaxCalls /\ AllocEnter(t, l)

\* lines 83-85: return null (ptr::null_mut()); nothing is recorded in allocs.
AllocFail(t) ==
    /\ pc[t] = "check"
    /\ Exhausted(layout[t].size, old_remained[t])
    /\ failed' = IF layout[t].size < failed THEN layout[t].size ELSE failed
    /\ Return(t)
    /\ UNCHANGED <<heap, ncalls, allocs>>

\* lines 83, 87: the test passes, new_remained is computed.
AllocCheck(t) ==
    /\ pc[t] = "check"
    /\ ~Exhausted(layout[t].size, old_remained[t])
    /\ new_remained' =
        [new_remained EXCEPT ![t] = NewRemained(old_remained[t], layout[t])]
    /\ pc' = [pc EXCEPT ![t] = "cas"]
    /\ UNCHANGED <<heap, layout, old_remained, ncalls, allocs, failed,
                   seenFail, contended>>

\* lines 88-97: the compare-and-swap succeeds; base + remained is returned
\* (the addr of the entry added to allocs).
AllocCasOk(t) ==
    /\ pc[t] = "cas"
    /\ CasMatches(t)
    /\ LET r == new_remained[t] IN
        /\ remained' = r
        /\ allocs' = Append(allocs, [addr |-> Address(r),
                                     size |-> layout[t].size,
                                     align |-> layout[t].align,
                                     old |-> old_remained[t],
                                     new |-> r,
                                     contended |-> contended[t],
                                     seenFail |-> seenFail[t]])
    /\ Return(t)
    /\ UNCHANGED <<storage, total_size, initialized, ncalls, failed>>

\* Faulty variant: the value carried by Err(x) is dropped
AllocCasFailStale(t) ==
    /\ pc[t] = "cas"
    /\ ~CasMatches(t)
    /\ new_remained' = [new_remained EXCEPT ![t] = 0]
    /\ contended' = [contended EXCEPT ![t] = TRUE]
    /\ pc' = [pc EXCEPT ![t] = "check"]
    /\ UNCHANGED <<heap, layout, old_remained, ncalls, allocs, failed, seenFail>>

\* lines 88-94: the compare-and-swap fails because remained has changed;
\* Err(x) carries the current value.  The iteration ends and with it the
\* scope of new_remained.
AllocCasFail(t) ==
    /\ pc[t] = "cas"
    /\ ~CasMatches(t)
    /\ old_remained' = [old_remained EXCEPT ![t] = remained]
    /\ new_remained' = [new_remained EXCEPT ![t] = 0]
    /\ contended' = [contended EXCEPT ![t] = TRUE]
    /\ pc' = [pc EXCEPT ![t] = "check"]
    /\ UNCHANGED <<heap, layout, ncalls, allocs, failed, seenFail>>

\* lines 88-94: compare_exchange_weak may fail although the value matches;
\* Err(x) then carries the value that was expected.
AllocCasSpurious(t) ==
    /\ pc[t] = "cas"
    /\ CasMatches(t)
    /\ old_remained' = [old_remained EXCEPT ![t] = remained]
    /\ new_remained' = [new_remained EXCEPT ![t] = 0]
    /\ pc' = [pc EXCEPT ![t] = "check"]
    /\ UNCHANGED <<heap, layout, ncalls, allocs, failed, seenFail, contended>>

\* ---------------------------------------------------------------- dealloc
\* The (pointer, layout) pairs a caller passes to dealloc: those of the
\* allocations granted so far, and the null pointer.
DeallocArgs ==
    {<<Null, NoLayout>>} \cup
    {<<allocs[i].addr, [size |-> allocs[i].size, align |-> allocs[i].align]>> :
        i \in 1..Len(allocs)}

\* Faulty variant: dealloc gives the bytes of the layout back
DeallocReclaims(t, p, l) ==
    /\ pc[t] = "idle"
    /\ ncalls < MaxCalls
    /\ ncalls' = ncalls + 1
    /\ remained' = remained + l.size
    /\ UNCHANGED <<storage, total_size, initialized, locals, allocs, failed>>

\* line 102: the body is empty.  Only the count of issued calls moves.
dealloc(t, p, l) ==
    /\ pc[t] = "idle"
    /\ ncalls < MaxCalls
    /\ ncalls' = ncalls + 1
    /\ UNCHANGED <<heap, locals, allocs, failed>>

\* ------------------------------------------------------------------- spec
\* The steps of caller t inside alloc.
AllocStep(t) ==
    /\ \/ AllocFail(t)
       \/ AllocCheck(t)
       \/ AllocCasOk(t)
       \/ AllocCasFail(t)
       \/ AllocCasSpurious(t)
    /\ UNCHANGED obs

Next ==
    \/ \E a \in PointerBases :
        InitOnce /\ init_with_ptr(a, HeapSize) /\ UNCHANGED obs
    \/ \E t \in Threads, l \in Layouts : AllocLoad(t, l) /\ UNCHANGED obs
    \/ \E t \in Threads : AllocStep(t)
    \/ \E t \in Threads, a \in DeallocArgs :
        dealloc(t, a[1], a[2]) /\ UNCHANGED obs

Spec == Init /\ [][Next]_vars

\* Progress: one Inline Heap and its callers inside alloc.  A caller that is
\* inside alloc keeps taking steps (weak fairness on its steps); nothing
\* makes a caller enter alloc.
LiveInit ==
    /\ new_with_storage([kind |-> "Inline", ptr |-> UsizeAlign], HeapSize)
    /\ Callers0

\* The layouts of the progress runs: byte alignment and the largest one.
LiveLayouts == {l \in Layouts : l.align \in {1, Pow2(MaxAlignLog)}}

LiveNext ==
    \/ \E t \in Threads, l \in LiveLayouts : AllocLoad(t, l) /\ UNCHANGED obs
    \/ \E t \in Threads : AllocStep(t)

LiveSpec ==
    /\ LiveInit
    /\ [][LiveNext]_vars
    /\ \A t \in Threads : WF_vars(AllocStep(t))

\* ------------------------------------------------------------- properties
\* The call of caller t returns in this step.
Returns(t) == pc[t] # "idle" /\ pc'[t] = "idle"
\* ... with an address (the last entry of allocs').
Granted(t) == Returns(t) /\ allocs' # allocs
\* ... with null.
NullReturned(t) == Returns(t) /\ allocs' = allocs
\* Caller t takes a step.
Steps(t) == pc'[t] # pc[t]

\* x rounded down to a multiple of a.
RoundDown(x, a) == x - (x % a)

\* The byte ranges of two allocations share a byte.
Overlap(a, b) == a.addr < b.addr + b.size /\ b.addr < a.addr + a.size

Granteds == 1..Len(allocs)

\* C1: the byte ranges [addr, addr + size) of any two successful allocations
\* of size >= 1 never overlap, whatever the interleaving of the callers'
\* loads and compare-and-swaps.
C1_Disjoint ==
    \A i, j \in Granteds :
        (i < j /\ allocs[i].size >= 1 /\ allocs[j].size >= 1)
            => ~Overlap(allocs[i], allocs[j])

\* Two non-empty allocations, the second granted after losing a CAS to a
\* concurrent caller.
C1_Witness ==
    \E i, j \in Granteds :
        /\ i < j
        /\ allocs[i].size >= 1
        /\ allocs[j].size >= 1
        /\ allocs[j].contended

\* C2: every address alloc returns is a multiple of the requested alignment,
\* for every storage variant and base address.
C2_AddressAligned ==
    \A i \in Granteds : allocs[i].addr % allocs[i].align = 0

\* C3: a successful alloc(size, align) that observed remained = r sets
\* remained to (r - size) rounded down to a multiple of align and returns
\* base + that value.
C3_AllocResult ==
    [][\A t \in Threads :
        Granted(t) =>
            /\ remained' = RoundDown(old_remained[t] - layout[t].size, layout[t].align)
            /\ allocs'[Len(allocs')].addr = ptr + remained']_vars

\* An allocation whose rounding consumed bytes beyond the requested size.
C3_Witness ==
    \E i \in Granteds :
        /\ allocs[i].size >= 1
        /\ allocs[i].new < allocs[i].old - allocs[i].size

\* C4: an alloc whose size is greater than the remained it observes returns
\* null and leaves remained unchanged, whatever the other callers do.
C4_ExhaustedFails ==
    [][\A t \in Threads :
        (pc[t] = "check" /\ layout[t].size > old_remained[t] /\ Steps(t))
            => (NullReturned(t) /\ remained' = remained)]_vars

\* An alloc has returned null on a Heap with bytes left while another caller
\* is about to compare-and-swap.
C4_Witness ==
    /\ failed # NoFail
    /\ remained > 0
    /\ \E u \in Threads : pc[u] = "cas"

\* C5: over any interleaving of alloc and dealloc, after construction and the
\* single initialization, remained never increases and stays in
\* [0, total_size] (old_remained - size never wraps below zero).
C5_MonotoneInRange ==
    /\ [](remained \in 0..total_size)
    /\ [][initialized' = initialized => remained' <= remained]_vars

\* The region has been consumed down to zero by several allocations.
C5_Witness ==
    /\ total_size > 0
    /\ remained = 0
    /\ Len(allocs) >= 2

\* C6: a successful alloc(size, align) that moves remained from old to new
\* has old - new >= size, and [base + new, base + new + size) lies inside
\* [base, base + total_size).
C6_Contained ==
    \A i \in Granteds :
        /\ allocs[i].old - allocs[i].new >= allocs[i].size
        /\ allocs[i].addr = ptr + allocs[i].new
        /\ ptr <= allocs[i].addr
        /\ allocs[i].addr + allocs[i].size <= ptr + total_size

\* A non-empty allocation at the very start of the region, and one that ends
\* at the very end of it.
C6_Witness ==
    /\ \E i \in Granteds : allocs[i].size >= 1 /\ allocs[i].new = 0
    /\ \E i \in Granteds :
        allocs[i].size >= 1 /\ allocs[i].new + allocs[i].size = total_size

\* C7: alloc returns null only if the remained it last read is smaller than
\* the requested size; an address it returns is never null; and a caller
\* with no concurrent caller and size <= remained does not get null, for any
\* alignment.
C7_OnlyExhaustionFails ==
    /\ [](\A i \in Granteds : allocs[i].addr # Null)
    /\ [][\A t \in Threads :
            /\ NullReturned(t) => old_remained[t] < layout[t].size
            /\ (/\ Steps(t)
                /\ pc[t] # "idle"
                /\ \A u \in Threads \ {t} : pc[u] = "idle"
                /\ layout[t].size <= remained)
               => ~NullReturned(t)]_vars

\* A null return has happened, and a request with an alignment larger than
\* the remained it observed has succeeded.
C7_Witness ==
    /\ failed # NoFail
    /\ \E i \in Granteds :
        allocs[i].size >= 1 /\ allocs[i].align > allocs[i].old

\* A step of dealloc: a call is issued and no caller enters alloc.
DeallocStep == ncalls' # ncalls /\ pc' = pc

\* What alloc(l) returns when run alone on the Heap as it is: null, or the
\* offset it grants.
Outcome(l) ==
    IF l.size > remained THEN <<"null">>
    ELSE <<"granted", ptr + RoundDown(remained - l.size, l.align)>>

\* C8: dealloc, called at any point of any interleaving, leaves remained and
\* the base address unchanged and changes the outcome of no later alloc (nor
\* the locals of an alloc in progress).
C8_DeallocNoOp ==
    [][DeallocStep =>
        /\ remained' = remained
        /\ storage' = storage
        /\ old_remained' = old_remained
        /\ layout' = layout
        /\ \A l \in Layouts : Outcome(l)' = Outcome(l)]_vars

\* Calls have been issued that were neither granted nor refused nor are in
\* progress (they are deallocs), and an allocation has been granted.
C8_Witness ==
    /\ failed = NoFail
    /\ \A t \in Threads : pc[t] = "idle"
    /\ Len(allocs) >= 1
    /\ ncalls > Len(allocs)

Terminates == \A t \in Threads : (pc[t] # "idle") ~> (pc[t] = "idle")

\* C9 (as stated): every alloc call eventually returns, given only that the
\* calling thread keeps taking steps.
C9_TerminatesUnderWeakFairness == Terminates

\* C9 (amended): a caller inside alloc always has a step of its own to take
\* (it never waits for another caller), and every call returns provided the
\* caller's compare_exchange_weak, attempted again and again with the
\* expected value in place, does not fail every time.
C9_NonBlockingTerminates ==
    /\ [](\A t \in Threads : pc[t] # "idle" => ENABLED AllocStep(t))
    /\ (\A t \in Threads : SF_vars(AllocCasOk(t) /\ UNCHANGED obs)) => Terminates

\* Every caller is back from alloc, one of them granted after losing a CAS
\* to a concurrent caller and retrying.
C9_Witness ==
    /\ \E i \in Granteds : allocs[i].contended
    /\ \A t \in Threads : pc[t] = "idle"

\* C14: in every reachable state no byte at an offset in [0, remained)
\* belongs to a granted range: every granted range [new, new + size) starts
\* at an offset >= the current remained.
C14_UnallocatedPrefix ==
    \A i \in Granteds :
        /\ allocs[i].new >= remained
        /\ \A k \in 0..(remained - 1) :
            ~(allocs[i].new <= k /\ k < allocs[i].new + allocs[i].size)

\* A non-empty range has been granted, bytes are left below it and another
\* caller is about to compare-and-swap.
C14_Witness ==
    /\ remained > 0
    /\ \E i \in Granteds : allocs[i].size >= 1
    /\ \E u \in Threads : pc[u] = "cas"

\* The sum of old - new over the first n allocations.
RECURSIVE Consumed(_)
Consumed(n) ==
    IF n = 0 THEN 0 ELSE (allocs[n].old - allocs[n].new) + Consumed(n - 1)

\* C18: the regions [new_i, old_i) of the successful allocations are pairwise
\* disjoint and cover the offsets [remained, total_size) exactly, so
\* total_size - remained is the sum of old_i - new_i; in the order of the
\* successful compare-and-swaps each old is the previous new, and the offsets
\* returned never increase.
C18_Tiling ==
    /\ \A i \in Granteds : allocs[i].new <= allocs[i].old
    /\ \A i, j \in Granteds :
        i < j => (allocs[j].old <= allocs[i].new \/ allocs[i].old <= allocs[j].new)
    /\ \A k \in 0..(total_size - 1) :
        (k >= remained) <=>
            (\E i \in Granteds : allocs[i].new <= k /\ k < allocs[i].old)
    /\ total_size - remained = Consumed(Len(allocs))
    /\ \A i \in Granteds :
        /\ allocs[i].old = (IF i = 1 THEN total_size ELSE allocs[i - 1].new)
        /\ i > 1 => allocs[i].new <= allocs[i - 1].new

\* Two allocations, the later one granted after a lost CAS, whose rounding
\* consumed more than the size asked for, of a region of several bytes.
C18_Witness ==
    /\ Len(allocs) >= 2
    /\ \E i \in Granteds :
        allocs[i].contended /\ allocs[i].old - allocs[i].new > allocs[i].size

\* The Heap<Pointer> made by empty(), before init_with_ptr.
Uninitialized == storage.kind = "Pointer" /\ ~initialized

\* C19: on a Heap<Pointer> made by empty() and not yet initialized, remained
\* is 0, every alloc of size >= 1 returns null and leaves remained at 0, and
\* no address derived from the sentinel is returned for a non-zero request.
C19_EmptyHeapRefuses ==
    /\ [](Uninitialized =>
            /\ remained = 0
            /\ ptr = Dangling
            /\ \A i \in Granteds : allocs[i].size = 0)
    /\ [](storage.kind = "Pointer" =>
            \A i \in Granteds :
                allocs[i].size >= 1 => allocs[i].addr - allocs[i].new # Dangling)
    /\ [][\A t \in Threads :
            (Uninitialized /\ pc[t] # "idle" /\ layout[t].size >= 1 /\ Steps(t))
                => (NullReturned(t) /\ remained' = 0)]_vars

\* A request for one byte has returned null on the uninitialized Heap.
C19_Witness ==
    /\ Uninitialized
    /\ failed = 1

\* ----------------------------------------------------- the 100-byte scenario
\* The size of the Heap of the tests (Inline<100>, new_boxed(100)).
ScenarioSize == 100

\* Layout::new::<u64>(), Layout::new::<u32>() and a request for 90 bytes.
ScenarioLayouts ==
    {[size |-> 8, align |-> 8], [size |-> 4, align |-> 4], [size |-> 90, align |-> 1]}

\* A fresh Heap<Inline<100>> or new_boxed(100).
ScenarioInit ==
    /\ \/ \E b \in InlineBases :
            new_with_storage([kind |-> "Inline", ptr |-> b], ScenarioSize)
       \/ \E b \in BoxedBases :
            new_with_storage([kind |-> "BoxedSlice", ptr |-> b], ScenarioSize)
    /\ Callers0

\* No caller is inside alloc.
Quiet == \A u \in Threads : pc[u] = "idle"

\* A call is issued once the previous one has returned.
ScenarioCall(t, l) ==
    /\ Quiet
    /\ ncalls < Cardinality(ScenarioLayouts)
    /\ AllocEnter(t, l)
    /\ UNCHANGED obs

\* The steps of a caller that is alone inside alloc: the compare-and-swap
\* never finds another value, it can only fail spuriously.
SoloStep(t) ==
    /\ \/ AllocFail(t)
       \/ AllocCheck(t)
       \/ AllocCasOk(t)
       \/ AllocCasSpurious(t)
    /\ UNCHANGED obs

ScenarioNext ==
    \/ \E t \in Threads, l \in ScenarioLayouts : ScenarioCall(t, l)
    \/ \E t \in Threads : SoloStep(t)

ScenarioSpec == ScenarioInit /\ [][ScenarioNext]_vars

\* The sizes and alignments granted so far, in order.
GrantedLayouts == [i \in Granteds |-> <<allocs[i].size, allocs[i].align>>]

\* C12: on a fresh 100-byte Heap, calls issued one after another:
\* alloc(8, align 8) returns base + 88 and leaves remained = 88; then
\* alloc(4, align 4) returns base + 84 and leaves remained = 84; then
\* alloc(90, align 1) returns null and remained stays 84.
C12_Scenario ==
    [][\A t \in Threads :
        /\ (/\ Returns(t)
            /\ ncalls = 1
            /\ layout[t] = [size |-> 8, align |-> 8])
           => (/\ Granted(t)
               /\ allocs'[Len(allocs')].addr = ptr + 88
               /\ remained' = 88)
        /\ (/\ Returns(t)
            /\ ncalls = 2
            /\ GrantedLayouts = << <<8, 8>> >>
            /\ layout[t] = [size |-> 4, align |-> 4])
           => (/\ Granted(t)
               /\ allocs'[Len(allocs')].addr = ptr + 84
               /\ remained' = 84)
        /\ (/\ Returns(t)
            /\ ncalls = 3
            /\ GrantedLayouts = << <<8, 8>>, <<4, 4>> >>
            /\ layout[t] = [size |-> 90, align |-> 1])
           => (/\ NullReturned(t)
               /\ remained = 84
               /\ remained' = 84)]_vars

\* The three calls have returned: two grants at offsets 88 and 84, then null
\* for the 90 bytes.
C12_Witness ==
    /\ Quiet
    /\ ncalls = 3
    /\ GrantedLayouts = << <<8, 8>>, <<4, 4>> >>
    /\ failed = 90
    /\ total_size = 100

\* ------------------------------------------------- one call after another
\* The observer notes the call of t that returns in this step: its layout,
\* whether it was granted, the offset (address returned minus base) and
\* remained after the call.
Observe(t, ok, offset) ==
    obs' = [obs EXCEPT !.trace =
                Append(@, [layout |-> layout[t], ok |-> ok,
                           offset |-> offset, remained |-> remained'])]

\* A call is issued on a Heap that is ready (a Heap<Pointer> has been
\* initialized), once the previous call has returned.
SeqCall(t, l) ==
    /\ Quiet
    /\ storage.kind = "Pointer" => initialized
    /\ AllocLoad(t, l)
    /\ UNCHANGED obs

\* The steps of the one caller inside alloc, observed.
SeqStep(t) ==
    \/ AllocFail(t) /\ Observe(t, FALSE, 0)
    \/ AllocCheck(t) /\ UNCHANGED obs
    \/ AllocCasOk(t) /\ Observe(t, TRUE, allocs'[Len(allocs')].addr - ptr)
    \/ AllocCasSpurious(t) /\ UNCHANGED obs

SeqNext ==
    \/ \E a \in PointerBases :
        InitOnce /\ init_with_ptr(a, HeapSize) /\ UNCHANGED obs
    \/ \E t \in Threads, l \in Layouts : SeqCall(t, l)
    \/ \E t \in Threads : SeqStep(t)

SeqSpec == Init /\ [][SeqNext]_vars

\* alloc(l) run as one atomic step on a Heap with r bytes left.
SeqAlloc(r, l) ==
    IF Exhausted(l.size, r)
    THEN [layout |-> l, ok |-> FALSE, offset |-> 0, remained |-> r]
    ELSE [layout |-> l, ok |-> TRUE, offset |-> NewRemained(r, l),
          remained |-> NewRemained(r, l)]

\* The outcomes of the requests reqs, run one at a time from r bytes.
RECURSIVE Replay(_, _)
Replay(reqs, r) ==
    IF reqs = <<>> THEN <<>>
    ELSE LET o == SeqAlloc(r, Head(reqs)) IN <<o>> \o Replay(Tail(reqs), o.remained)

\* The requests of a trace.
Requests(trace) == [i \in 1..Len(trace) |-> trace[i].layout]

\* C11: an Inline Heap from new(), a Pointer Heap from empty() and one
\* init_with_ptr(addr, N), and a BoxedSlice Heap from new_boxed(N) give, for
\* the same sequence of requests, the same sequence of outcomes (granted or
\* not, offset, remained after the call): the outcomes are one function of
\* the requests and N, in which neither the variant nor the base appears.
C11_VariantsAgree ==
    obs.trace = Replay(Requests(obs.trace), HeapSize)

\* A Heap<Pointer> has granted a non-empty request and then refused one.
C11_Witness ==
    /\ storage.kind = "Pointer"
    /\ Len(obs.trace) = 2
    /\ obs.trace[1].ok
    /\ obs.trace[1].layout.size >= 1
    /\ ~obs.trace[2].ok

\* --------------------------------------------------- Allocator::allocate
\* Err(AllocError)
Err == [tag |-> "Err", addr |-> 0, len |-> 0]
\* Ok(NonNull::slice_from_raw_parts(p, len))
Ok(p, len) == [tag |-> "Ok", addr |-> p, len |-> len]

\* layout.dangling(): the alignment used as an address.
LayoutDangling(l) == l.align

\* Faulty variant: the pointer is wrapped without looking at it
MapOrUnchecked(p, size) == Ok(p, size)

\* lines 114-116: self.alloc(layout).map_or(Err(AllocError), |allocation| Ok(..))
MapOr(p, size) == IF p = Null THEN Err ELSE Ok(p, size)

\* lines 112-113: size 0; alloc is not called.
AllocateZero(t, l) ==
    /\ pc[t] = "idle"
    /\ ncalls < MaxCalls
    /\ l.size = 0
    /\ ncalls' = ncalls + 1
    /\ obs' = [obs EXCEPT !.result = Ok(LayoutDangling(l), 0)]
    /\ UNCHANGED <<heap, locals, allocs, failed>>

\* lines 112, 114: any other size; alloc is entered.
AllocateCall(t, l) ==
    /\ l.size # 0
    /\ AllocLoad(t, l)
    /\ UNCHANGED obs

\* lines 114-116: the steps of alloc, and what allocate makes of its result.
AllocateStep(t) ==
    \/ AllocFail(t) /\ obs' = [obs EXCEPT !.result = MapOr(Null, layout[t].size)]
    \/ AllocCheck(t) /\ UNCHANGED obs
    \/ /\ AllocCasOk(t)
       /\ obs' = [obs EXCEPT !.result =
                    MapOr(allocs'[Len(allocs')].addr, layout[t].size)]
    \/ AllocCasFail(t) /\ UNCHANGED obs
    \/ AllocCasSpurious(t) /\ UNCHANGED obs

AllocatorNext ==
    \/ \E a \in PointerBases :
        InitOnce /\ init_with_ptr(a, HeapSize) /\ UNCHANGED obs
    \/ \E t \in Threads, l \in Layouts : AllocateZero(t, l)
    \/ \E t \in Threads, l \in Layouts : AllocateCall(t, l)
    \/ \E t \in Threads : AllocateStep(t)

AllocatorSpec == Init /\ [][AllocatorNext]_vars

\* An allocate of size 0 returns in this step.
ZeroReturns == ncalls' # ncalls /\ pc' = pc

InitAgain(a) ==
    /\ Quiet
    /\ init_with_ptr(a, HeapSize)
    /\ UNCHANGED obs

MisuseNext ==
    \/ \E a \in PointerBases : InitAgain(a)
    \/ \E t \in Threads, l \in Layouts : AllocLoad(t, l) /\ UNCHANGED obs
    \/ \E t \in Threads : AllocStep(t)

\* The Heap<Pointer> as empty() makes it.
MisuseInit == empty /\ Callers0

MisuseSpec == MisuseInit /\ [][MisuseNext]_vars

\* C15: init_with_ptr checks neither a previous initialization nor previous
\* allocations: whenever it is called it sets the base to `address` and
\* remained to `size`; a call after a successful alloc raises remained again.
C15_InitUnguarded ==
    /\ [](\A a \in PointerBases :
            ENABLED (/\ init_with_ptr(a, HeapSize)
                     /\ UNCHANGED obs
                     /\ storage'.ptr = a
                     /\ remained' = HeapSize))
    /\ [][(remained' > remained \/ storage' # storage)
            => (/\ remained' = HeapSize
                /\ storage'.ptr \in PointerBases
                /\ allocs' = allocs)]_vars

\* After a non-empty grant, remained is back at the full size.
C15_Witness ==
    /\ Quiet
    /\ \E i \in Granteds : allocs[i].size >= 1 /\ allocs[i].new < HeapSize
    /\ remained = HeapSize

\* ------------------------------------------- concurrent calls, observed
\* Caller t reads `value` from remained (the load of line 81 or the Err(x)
\* of line 94) for a request l.  A read of less than the size asked for is
\* where the call takes effect: it is noted as refused.
Linearize(t, l, value) ==
    IF value < l.size
    THEN obs' = [obs EXCEPT
                    !.trace = Append(@, [layout |-> l, ok |-> FALSE,
                                         offset |-> 0, remained |-> remained]),
                    !.lin[t] = TRUE]
    ELSE UNCHANGED obs

LinCall(t, l) == AllocLoad(t, l) /\ Linearize(t, l, remained)

\* The steps of caller t inside alloc; a granted call takes effect at its
\* successful compare-and-swap.
LinStep(t) ==
    \/ AllocFail(t) /\ obs' = [obs EXCEPT !.lin[t] = FALSE]
    \/ AllocCheck(t) /\ UNCHANGED obs
    \/ AllocCasOk(t) /\ Observe(t, TRUE, allocs'[Len(allocs')].addr - ptr)
    \/ AllocCasFail(t) /\ Linearize(t, layout[t], remained)
    \/ AllocCasSpurious(t) /\ Linearize(t, layout[t], remained)

LinNext ==
    \/ \E t \in Threads, l \in Layouts : LinCall(t, l)
    \/ \E t \in Threads : LinStep(t)

\* One Heap<Inline<N>> and its callers.
LinInit == new /\ Callers0

LinSpec == LinInit /\ [][LinNext]_vars

\* remained after the calls of the trace, run one at a time.
FinalRemained ==
    IF obs.trace = <<>> THEN total_size ELSE obs.trace[Len(obs.trace)].remained

\* C16: every concurrent execution of alloc calls is equivalent to running
\* the same calls one at a time, each granted call at its successful
\* compare-and-swap and each refused call at the read that saw remained <
\* size: run in that order from total_size, every call has the result
\* (offset or null) it has in the concurrent execution, and remained ends at
\* the same value.
C16_Linearizable ==
    /\ [](obs.trace = Replay(Requests(obs.trace), total_size))
    /\ [](remained = FinalRemained)
    /\ [][\A t \in Threads :
            /\ NullReturned(t) => obs.lin[t]
            /\ (obs.lin[t] /\ Steps(t)) => NullReturned(t)
            /\ Granted(t) =>
                /\ ~obs.lin[t]
                /\ Len(obs'.trace) = Len(obs.trace) + 1
                /\ obs'.trace[Len(obs'.trace)] =
                    [layout |-> layout[t], ok |-> TRUE,
                     offset |-> allocs'[Len(allocs')].addr - ptr,
                     remained |-> remained']]_vars

\* A call that passed the test lost its compare-and-swap to a grant and is
\* refused on the value it then read: it is in the trace after that grant.
C16_Witness ==
    /\ Len(obs.trace) = 2
    /\ obs.trace[1].ok
    /\ ~obs.trace[2].ok
    /\ \E t \in Threads :
        /\ obs.lin[t]
        /\ contended[t]
        /\ obs.trace[2].layout = layout[t]

\* ------------------------------------------- retries, counted per call
\* The counts of caller t start at zero with its call.
RetryCall(t, l) ==
    /\ AllocLoad(t, l)
    /\ obs' = [obs EXCEPT !.cas_failures[t] = 0, !.changes[t] = 0]

\* Caller t is granted: every other caller inside alloc sees one more change
\* of remained, if remained has changed.
RetryGrant(t) ==
    /\ AllocCasOk(t)
    /\ obs' = [obs EXCEPT !.changes =
                [u \in Threads |->
                    IF u # t /\ pc[u] # "idle" /\ remained' # remained
                    THEN @[u] + 1 ELSE @[u]]]

\* The compare-and-swap is taken to fail only when remained differs from the
\* expected value: no spurious failure.
RetryStep(t) ==
    \/ AllocFail(t) /\ UNCHANGED obs
    \/ AllocCheck(t) /\ UNCHANGED obs
    \/ RetryGrant(t)
    \/ AllocCasFail(t) /\ obs' = [obs EXCEPT !.cas_failures[t] = @ + 1]

RetryNext ==
    \/ \E t \in Threads, l \in Layouts : RetryCall(t, l)
    \/ \E t \in Threads : RetryStep(t)

\* Heap::<Inline<N>>::new() for the sizes N up to HeapSize.
RetryInit ==
    /\ \E n \in 1..HeapSize :
        new_with_storage([kind |-> "Inline", ptr |-> UsizeAlign], n)
    /\ Callers0

RetrySpec == RetryInit /\ [][RetryNext]_vars

\* C17: without spurious failures, the failed compare-and-swaps of one alloc
\* call never outnumber the changes other callers made to remained during
\* the call, which never outnumber total_size; and a grant that leaves
\* remained unchanged (a zero-size request) makes no other caller's pending
\* compare-and-swap fail.
C17_RetryBound ==
    /\ [](\A t \in Threads :
            /\ obs.cas_failures[t] <= obs.changes[t]
            /\ obs.changes[t] <= total_size)
    /\ [][\A t \in Threads :
            (Granted(t) /\ remained' = remained) =>
                /\ obs'.changes = obs.changes
                /\ \A u \in Threads \ {t} :
                    (pc[u] = "cas" /\ CasMatches(u)) =>
                        (pc'[u] = "cas" /\ CasMatches(u)')]_vars

\* A caller inside alloc has lost one compare-and-swap to the one change
\* another caller made, as many changes as the Heap has bytes, and is about
\* to try again.
C17_Witness ==
    \E t \in Threads :
        /\ pc[t] = "cas"
        /\ obs.cas_failures[t] = 1
        /\ obs.changes[t] = total_size

\* --------------------------- init_with_ptr running while alloc is called
\* Faulty variant: the size is published before the pointer is written
InitOrderSizeFirst == <<"remained", "ptr">>

\* lines 69-71: the pointer is written, then remained is stored (Release).
InitOrder == <<"ptr", "remained">>

\* The write w of init_with_ptr has been done.
InitDone(w) == IF w = "ptr" THEN ptr # Dangling ELSE initialized

\* The write w of init_with_ptr(address, size).
InitWrite(w, address, size) ==
    IF w = "ptr"
    THEN /\ storage' = [storage EXCEPT !.ptr = address]
         /\ UNCHANGED <<remained, total_size, initialized>>
    ELSE /\ remained' = size
         /\ total_size' = size
         /\ initialized' = TRUE
         /\ UNCHANGED storage

\* The next write of the one init_with_ptr(address, size), in program order.
InitStep(address, size) ==
    /\ storage.kind = "Pointer"
    /\ \E i \in DOMAIN InitOrder :
        /\ ~InitDone(InitOrder[i])
        /\ \A j \in 1..(i - 1) : InitDone(InitOrder[j])
        /\ InitWrite(InitOrder[i], address, size)
    /\ UNCHANGED <<locals, ncalls, allocs, failed, obs>>

\* lines 88-93: the compare-and-swap succeeds.
RaceCas(t) ==
    /\ pc[t] = "cas"
    /\ CasMatches(t)
    /\ remained' = new_remained[t]
    /\ pc' = [pc EXCEPT ![t] = "ret"]
    /\ UNCHANGED <<storage, total_size, initialized, layout, old_remained,
                   new_remained, ncalls, allocs, failed, seenFail, contended, obs>>

\* line 96: the base pointer is read and base + new_remained is returned.
\* The read is not ordered after a pointer write of init_with_ptr unless the
\* compare-and-swap has read a value that the store of remained published;
\* it returns the pointer before or after the write.
RaceReturn(t) ==
    /\ pc[t] = "ret"
    /\ allocs' = Append(allocs, [addr |-> Address(new_remained[t]),
                                 size |-> layout[t].size,
                                 align |-> layout[t].align,
                                 old |-> old_remained[t],
                                 new |-> new_remained[t],
                                 contended |-> contended[t],
                                 seenFail |-> seenFail[t]])
    /\ Return(t)
    /\ UNCHANGED <<heap, ncalls, failed, obs>>

\* The other steps of caller t inside alloc.
RaceStep(t) ==
    /\ \/ AllocFail(t)
       \/ AllocCheck(t)
       \/ AllocCasFail(t)
       \/ AllocCasSpurious(t)
    /\ UNCHANGED obs

\* The calls that run beside init_with_ptr ask for the layouts of the
\* progress runs.
InitRaceNext ==
    \/ \E a \in PointerBases : InitStep(a, HeapSize)
    \/ \E t \in Threads, l \in LiveLayouts : AllocLoad(t, l) /\ UNCHANGED obs
    \/ \E t \in Threads : RaceStep(t)
    \/ \E t \in Threads : RaceCas(t)
    \/ \E t \in Threads : RaceReturn(t)

\* The empty Heap<Pointer> and its callers.
EmptyInit == empty /\ Callers0

InitRaceSpec == EmptyInit /\ [][InitRaceNext]_vars

\* The base an address was computed from.
BaseOf(a) == a.addr - a.new

\* C20: with one init_with_ptr running while alloc is called on an empty
\* Heap<Pointer>, its writes and the callers' steps interleaved in any
\* order, every alloc granted with size >= 1 returns an address computed
\* from the address given to init_with_ptr, never from the sentinel.
C20_BaseBeforeSize ==
    \A i \in Granteds :
        allocs[i].size >= 1 =>
            /\ BaseOf(allocs[i]) # Dangling
            /\ BaseOf(allocs[i]) \in PointerBases
            /\ BaseOf(allocs[i]) = ptr

\* A zero-size request was granted against the sentinel while the Heap was
\* not initialized, and a non-empty one after the initialization.
C20_Witness ==
    /\ initialized
    /\ \E i \in Granteds : allocs[i].size = 0 /\ BaseOf(allocs[i]) = Dangling
    /\ \E i \in Granteds : allocs[i].size >= 1
====
